---- MODULE Spec2Model ----
(***************************************************************************)
(* wrecked-radio: an in-process message bus.  WreckedRadio keeps a Map     *)
(* from channel names to Channel instances; a Channel keeps two plain      *)
(* JavaScript objects, `events` (name -> array of handlers) and `requests` *)
(* (name -> handler).  Both objects are created with the literal {} and so *)
(* inherit the properties of Object.prototype.                             *)
(***************************************************************************)
EXTENDS Integers, Sequences, FiniteSets, TLC

\* ---------------------------------------------------------------- inputs

ChannelNames == {"n1", "n2"}
\* "toString" stands for the names Object.prototype defines.
EventNames == {"e1", "e2", "toString"}
\* "e1" is a request name and an event name.
RequestNames == {"e1", "toString"}
Payloads == {"p1", "p2"}
\* h1, h2 return normally; hThrow throws.
Handlers == {"h1", "h2", "hThrow"}
RequestHandlers == {"h1", "h2"}

\* The number of on() calls (unsubscribe closures) a run makes.
MaxSubs == 2
\* The number of Channel instances a run may construct.
MaxInstances == 3

\* Handlers that call the channel while a trigger is dispatching to them:
\* hOff is () => u(), u being the unsubscribe function of its first subscription;
\* hOn is () => channel.on(eventName, hNew), the result being dropped.
DispatchHandlers == {"h1", "hOn", "hOff"}
\* The number of on() calls a run with such handlers makes.
MaxDispatchSubs == 3
\* The length a handler array may reach in such a run.
MaxListeners == 4

VARIABLES
    channels,   \* WreckedRadio.channels: channel name -> instance (0: no entry)
    heap,       \* the Channel instances, by identity: [events, requests]
    subs,       \* the unsubscribe closures returned by on(), in creation order
    returned,   \* history: the instances channel(n) has returned, per name
    replies,    \* history: per instance and request name, h: the handler of the latest
                \* reply() not followed by a stopReplying() (NoHandler: none), and
                \* prev: the handler that reply() replaced (NoHandler: none)
    last        \* the last call: its arguments, the handlers it invoked, its outcome

vars == <<channels, heap, subs, returned, replies, last>>

\* ------------------------------------------------------ JavaScript objects

\* The properties every {} inherits from Object.prototype.
ProtoKeys == {"toString"}

\* A {} object: its own keys and their values (val[k] is meaningful for k in keys).
EmptyObject(names, none) == [keys |-> {}, val |-> [k \in names |-> none]]

\* obj[key]: an own property, else an inherited one, else undefined.
Lookup(obj, key) ==
    IF key \in obj.keys THEN "own"
    ELSE IF key \in ProtoKeys THEN "inherited"
    ELSE "undefined"

\* obj[key] = value: creates or overwrites the own property.
SetProp(obj, key, value) ==
    [keys |-> obj.keys \cup {key}, val |-> [obj.val EXCEPT ![key] = value]]

\* delete obj[key]: removes the own property if there is one.
DeleteProp(obj, key, none) ==
    [keys |-> obj.keys \ {key}, val |-> [obj.val EXCEPT ![key] = none]]

\* Array.prototype.indexOf, 0-based, -1 when absent.
RECURSIVE IndexFrom(_, _, _)
IndexFrom(list, h, k) ==
    IF k >= Len(list) THEN -1
    ELSE IF list[k + 1] = h THEN k
    ELSE IndexFrom(list, h, k + 1)

IndexOf(list, h) == IndexFrom(list, h, 0)

\* Array.prototype.splice(start, deleteCount) without inserted items: a negative
\* start counts from the end.
Splice(list, start, deleteCount) ==
    LET len == Len(list)
        from == IF start < 0
                THEN (IF len + start > 0 THEN len + start ELSE 0)
                ELSE (IF start < len THEN start ELSE len)
        n == IF deleteCount < 0 THEN 0
             ELSE IF deleteCount < len - from THEN deleteCount ELSE len - from
    IN  SubSeq(list, 1, from) \o SubSeq(list, from + n + 1, len)

\* ---------------------------------------------------------------- handlers

Returns(value) == [kind |-> "return", value |-> value]
Throws(value) == [kind |-> "throw", value |-> value]
Undefined == <<"undefined">>

\* What a user handler does when called with payload p.
HandlerResult(h, p) ==
    IF h = "hThrow" THEN Throws(<<"Error", h, p>>) ELSE Returns(<<h, p>>)

Call(op, ch, name, payload, calls, out, ret) ==
    [op |-> op, ch |-> ch, name |-> name, payload |-> payload,
     calls |-> calls, out |-> out, ret |-> ret]

NoHandler == ""
NoReply == [h |-> NoHandler, prev |-> NoHandler]

\* Faulty variant: the registries are shared with the first instance (fields kept
\* on the class instead of the instance).
NewChannel_Shared ==
    IF heap = <<>>
    THEN [events |-> EmptyObject(EventNames, <<>>),
          requests |-> EmptyObject(RequestNames, NoHandler)]
    ELSE heap[1]

\* class Channel: events = {}, requests = {}
NewChannel ==
    [events |-> EmptyObject(EventNames, <<>>),
     requests |-> EmptyObject(RequestNames, NoHandler)]

Init ==
    /\ channels = [n \in ChannelNames |-> 0]
    /\ heap = <<>>
    /\ subs = <<>>
    /\ returned = [n \in ChannelNames |-> {}]
    /\ replies = <<>>
    /\ last = Call("new", 0, "", "", <<>>, Returns(Undefined), 0)

\* ------------------------------------------------------------ WreckedRadio

\* WreckedRadio.channel(channelName)

\* Faulty variant: the lookup never finds an entry, so every call constructs.
ChannelHas_Never(n) == FALSE

\* this.channels.has(channelName)
ChannelHas(n) == channels[n] # 0

GetChannel(n) ==
    /\ ChannelHas(n)
    /\ UNCHANGED <<channels, heap, replies>>
    /\ returned' = [returned EXCEPT ![n] = @ \cup {channels[n]}]
    /\ last' = Call("channel", 0, n, "", <<>>, Returns(<<"Channel", "existing">>), channels[n])

CreateChannel(n) ==
    /\ ~ChannelHas(n)
    /\ Len(heap) < MaxInstances
    /\ heap' = Append(heap, NewChannel)
    /\ replies' = Append(replies, [r \in RequestNames |-> NoReply])
    /\ channels' = [channels EXCEPT ![n] = Len(heap) + 1]
    /\ returned' = [returned EXCEPT ![n] = @ \cup {Len(heap) + 1}]
    /\ last' = Call("channel", 0, n, "", <<>>, Returns(<<"Channel", "created">>), Len(heap) + 1)

BusChannel(n) ==
    /\ (GetChannel(n) \/ CreateChannel(n))
    /\ UNCHANGED subs

Instances == 1..Len(heap)

\* ----------------------------------------------------------------- Channel

TypeError(what) == Throws(<<"TypeError", what>>)

Unhandled(r) == Throws(<<"Error", "WreckedRadio: the request has no registered handler", r>>)

\* Faulty variant: the handler is called without the payload, and inherited
\* properties are not seen.
RequestResult_NoPayload(ch, r, p) ==
    IF Lookup(ch.requests, r) = "own"
    THEN [calls |-> <<<<ch.requests.val[r], "undefined">>>>,
          out |-> HandlerResult(ch.requests.val[r], "undefined")]
    ELSE [calls |-> <<>>, out |-> Unhandled(r)]

\* Channel.request(requestName, payload): the handlers invoked and the outcome.
RequestResult(ch, r, p) ==
    LET kind == Lookup(ch.requests, r)
    IN  IF kind = "own"
        THEN [calls |-> <<<<ch.requests.val[r], p>>>>,
              out |-> HandlerResult(ch.requests.val[r], p)]
        ELSE IF kind = "inherited"
        \* requests[r] is Object.prototype's function, which is truthy and is called
        \* (with this undefined, class code being strict): it returns a string
        THEN [calls |-> <<>>, out |-> Returns(<<"[object Undefined]">>)]
        ELSE [calls |-> <<>>, out |-> Unhandled(r)]

Request(c, r, p) ==
    /\ c \in Instances
    /\ LET res == RequestResult(heap[c], r, p)
       IN  last' = Call("request", c, r, p, res.calls, res.out, 0)
    /\ UNCHANGED <<channels, heap, subs, returned, replies>>

\* Faulty variant: reply and stopReplying return another channel.
ReturnThis_Other(c) == IF c = 1 THEN 2 ELSE 1

\* return this
ReturnThis(c) == c

\* Faulty variant: a handler already registered is kept.
ReplyResult_KeepFirst(ch, r, h) ==
    IF Lookup(ch.requests, r) = "own" THEN ch
    ELSE [ch EXCEPT !.requests = SetProp(@, r, h)]

\* Channel.reply(requestName, requestHandler)
ReplyResult(ch, r, h) == [ch EXCEPT !.requests = SetProp(@, r, h)]

Reply(c, r, h) ==
    /\ c \in Instances
    /\ heap' = [heap EXCEPT ![c] = ReplyResult(@, r, h)]
    /\ replies' = [replies EXCEPT ![c][r] = [h |-> h, prev |-> @.h]]
    /\ last' = Call("reply", c, r, "", <<>>, Returns(<<"Channel">>), ReturnThis(c))
    /\ UNCHANGED <<channels, subs, returned>>

\* Faulty variant: one container for both registries, so the event handlers under
\* the name go as well.
StopReplyingResult_OneContainer(ch, r) ==
    [ch EXCEPT !.requests = DeleteProp(@, r, NoHandler),
               !.events = IF r \in EventNames THEN DeleteProp(@, r, <<>>) ELSE @]

\* Channel.stopReplying(requestName)
StopReplyingResult(ch, r) == [ch EXCEPT !.requests = DeleteProp(@, r, NoHandler)]

StopReplying(c, r) ==
    /\ c \in Instances
    /\ heap' = [heap EXCEPT ![c] = StopReplyingResult(@, r)]
    /\ replies' = [replies EXCEPT ![c][r] = NoReply]
    /\ last' = Call("stopReplying", c, r, "", <<>>, Returns(<<"Channel">>), ReturnThis(c))
    /\ UNCHANGED <<channels, subs, returned>>

\* A chained call, ch.reply(..).reply(r, h) or ch.stopReplying(..).reply(r, h): the
\* call is made on the value the call before returned.
ChainOps == {"reply", "stopReplying"}

ChainReply(r, h) ==
    /\ last.op \in ChainOps
    /\ Reply(last.ret, r, h)

ChainStopReplying(r) ==
    /\ last.op \in ChainOps
    /\ StopReplying(last.ret, r)

\* Channel.on(eventName, eventHandler): the registry after the push.
OnResult(ch, e, h) ==
    LET created == IF Lookup(ch.events, e) = "own" THEN ch.events
                   ELSE SetProp(ch.events, e, <<>>)
    IN  [ch EXCEPT !.events = SetProp(created, e, Append(created.val[e], h))]

OnWithin(c, e, h, max) ==
    /\ c \in Instances
    /\ IF Lookup(heap[c].events, e) = "inherited"
       \* events[e] is Object.prototype's function, which is truthy and has no push
       THEN /\ last' = Call("on", c, e, "", <<>>, TypeError("eventListeners.push is not a function"), 0)
            /\ UNCHANGED <<heap, subs>>
       ELSE /\ Len(subs) < max
            /\ heap' = [heap EXCEPT ![c] = OnResult(@, e, h)]
            /\ subs' = Append(subs, [ch |-> c, ev |-> e, h |-> h, called |-> FALSE])
            /\ last' = Call("on", c, e, "", <<>>, Returns(<<"unsubscribe">>), Len(subs) + 1)
    /\ UNCHANGED <<channels, returned, replies>>

On(c, e, h) == OnWithin(c, e, h, MaxSubs)

\* The closure unsubscribe() returned by on(): it holds the array and the handler.
UnsubscribeResult(eventListeners, eventHandler) ==
    Splice(eventListeners, IndexOf(eventListeners, eventHandler), 1)

Unsubscribe(i) ==
    /\ i \in 1..Len(subs)
    /\ LET s == subs[i]
       IN  /\ heap' = [heap EXCEPT ![s.ch].events.val[s.ev] = UnsubscribeResult(@, s.h)]
           /\ last' = Call("unsubscribe", s.ch, s.ev, "", <<>>, Returns(Undefined), i)
    /\ subs' = [subs EXCEPT ![i].called = TRUE]
    /\ UNCHANGED <<channels, returned, replies>>

\* Faulty variant: a throwing callback does not end the loop; the error is thrown
\* after the last callback.
RECURSIVE ForEach_Isolating(_, _, _, _, _)
ForEach_Isolating(list, p, k, len, calls) ==
    IF k >= len \/ k >= Len(list)
    THEN [calls |-> calls,
          out |-> IF \E i \in DOMAIN calls : calls[i][1] = "hThrow"
                  THEN HandlerResult("hThrow", p) ELSE Returns(Undefined)]
    ELSE ForEach_Isolating(list, p, k + 1, len, Append(calls, <<list[k + 1], p>>))

\* Array.prototype.forEach: the length is read once; an index is visited while it is
\* still in the array; a throwing callback ends the loop.
RECURSIVE ForEach(_, _, _, _, _)
ForEach(list, p, k, len, calls) ==
    IF k >= len THEN [calls |-> calls, out |-> Returns(Undefined)]
    ELSE IF k >= Len(list) THEN ForEach(list, p, k + 1, len, calls)
    ELSE LET h == list[k + 1]
             r == HandlerResult(h, p)
         IN  IF r.kind = "throw"
             THEN [calls |-> Append(calls, <<h, p>>), out |-> r]
             ELSE ForEach(list, p, k + 1, len, Append(calls, <<h, p>>))

\* Faulty variant: the handlers of every event name are invoked.
TriggerResult_Broadcast(ch, e, p) ==
    LET all == ch.events.val["e1"] \o ch.events.val["e2"]
    IN  ForEach(all, p, 0, Len(all), <<>>)

\* Channel.trigger(eventName, payload): the handlers invoked and the outcome.
TriggerResult(ch, e, p) ==
    LET kind == Lookup(ch.events, e)
    IN  IF kind = "own"
        THEN ForEach(ch.events.val[e], p, 0, Len(ch.events.val[e]), <<>>)
        ELSE IF kind = "inherited"
        \* events[e] is Object.prototype's function, which is truthy and has no forEach
        THEN [calls |-> <<>>, out |-> TypeError("eventListeners.forEach is not a function")]
        ELSE [calls |-> <<>>, out |-> Returns(Undefined)]

Trigger(c, e, p) ==
    /\ c \in Instances
    /\ LET res == TriggerResult(heap[c], e, p)
       IN  last' = Call("trigger", c, e, p, res.calls, res.out, 0)
    /\ UNCHANGED <<channels, heap, subs, returned, replies>>

\* hOff: calls the unsubscribe function that its first on(e, hOff) returned.
SelfUnsubscribe(c, e, st) ==
    LET own == {i \in DOMAIN st.subs :
                    st.subs[i].ch = c /\ st.subs[i].ev = e /\ st.subs[i].h = "hOff"}
        i == CHOOSE i \in own : \A j \in own : i <= j
    IN  [st EXCEPT !.heap[c].events.val[e] = UnsubscribeResult(@, "hOff"),
                   !.subs[i].called = TRUE]

\* hOn: calls on(e, hNew) on its channel and drops the unsubscribe function.
SubscribeInside(c, e, st) == [st EXCEPT !.heap[c] = OnResult(@, e, "hNew")]

\* The channel calls a handler makes when it is invoked.
HandlerEffect(h, c, e, st) ==
    IF h = "hOff" THEN SelfUnsubscribe(c, e, st)
    ELSE IF h = "hOn" THEN SubscribeInside(c, e, st)
    ELSE st

\* Array.prototype.forEach over the array of event e while the handlers may change
\* it: the length is read once, before the first callback; index k is visited if it
\* is in the array when the loop gets there, and the element read then is called.
RECURSIVE Dispatch(_, _, _, _, _, _)
Dispatch(c, e, p, k, len, st) ==
    LET list == st.heap[c].events.val[e]
    IN  IF k >= len THEN st
        ELSE IF k >= Len(list) THEN Dispatch(c, e, p, k + 1, len, st)
        ELSE LET h == list[k + 1]
                 r == HandlerResult(h, p)
                 st1 == [HandlerEffect(h, c, e, st) EXCEPT !.calls = Append(@, <<h, p>>)]
             IN  IF r.kind = "throw" THEN [st1 EXCEPT !.out = r]
                 ELSE Dispatch(c, e, p, k + 1, len, st1)

\* Channel.trigger(eventName, payload) with handlers that call the channel.
TriggerDispatch(c, e, p) ==
    /\ c \in Instances
    /\ LET st == IF Lookup(heap[c].events, e) = "own"
                 THEN Dispatch(c, e, p, 0, Len(heap[c].events.val[e]),
                               [heap |-> heap, subs |-> subs, calls |-> <<>>,
                                out |-> Returns(Undefined)])
                 ELSE [heap |-> heap, subs |-> subs,
                       calls |-> TriggerResult(heap[c], e, p).calls,
                       out |-> TriggerResult(heap[c], e, p).out]
       IN  /\ Len(st.heap[c].events.val[e]) <= MaxListeners
           /\ heap' = st.heap
           /\ subs' = st.subs
           /\ last' = Call("trigger", c, e, p, st.calls, st.out, 0)
    /\ UNCHANGED <<channels, returned, replies>>

\* Spec is the whole program.  The event operations read and write only
\* Channel.events and the request operations only Channel.requests, so the
\* properties of either are checked under the bus with that half of Channel.

\* The bus and the event operations.
NextEvents ==
    \/ \E n \in ChannelNames : BusChannel(n)
    \/ \E c \in Instances, e \in EventNames, h \in Handlers : On(c, e, h)
    \/ \E i \in 1..Len(subs) : Unsubscribe(i)
    \/ \E c \in Instances, e \in EventNames, p \in Payloads : Trigger(c, e, p)

\* The bus and the request operations.
NextRequests ==
    \/ \E n \in ChannelNames : BusChannel(n)
    \/ \E c \in Instances, r \in RequestNames, h \in RequestHandlers : Reply(c, r, h)
    \/ \E c \in Instances, r \in RequestNames : StopReplying(c, r)
    \/ \E c \in Instances, r \in RequestNames, p \in Payloads : Request(c, r, p)

\* Method chaining on reply and stopReplying.
NextChain ==
    \/ \E r \in RequestNames, h \in RequestHandlers : ChainReply(r, h)
    \/ \E r \in RequestNames : ChainStopReplying(r)

\* Both halves of Channel on two channels, under one name.
FrameEvents == {"e1"}
FrameRequests == {"e1"}
FrameHandlers == {"h1", "h2"}
FrameRequestHandlers == {"h1"}
FramePayloads == {"p1"}

NextFrame ==
    \/ \E n \in ChannelNames : BusChannel(n)
    \/ \E c \in Instances, e \in FrameEvents, h \in FrameHandlers : On(c, e, h)
    \/ \E i \in 1..Len(subs) : Unsubscribe(i)
    \/ \E c \in Instances, e \in FrameEvents, p \in FramePayloads : Trigger(c, e, p)
    \/ \E c \in Instances, r \in FrameRequests, h \in FrameRequestHandlers : Reply(c, r, h)
    \/ \E c \in Instances, r \in FrameRequests : StopReplying(c, r)
    \/ \E c \in Instances, r \in FrameRequests, p \in FramePayloads : Request(c, r, p)

\* Both halves of Channel on one channel, every name, "e1" and "toString" being
\* event names and request names.
NextNames ==
    \/ BusChannel("n1")
    \/ \E c \in Instances, e \in EventNames, h \in FrameHandlers : On(c, e, h)
    \/ \E i \in 1..Len(subs) : Unsubscribe(i)
    \/ \E c \in Instances, e \in EventNames, p \in FramePayloads : Trigger(c, e, p)
    \/ \E c \in Instances, r \in RequestNames, h \in FrameRequestHandlers : Reply(c, r, h)
    \/ \E c \in Instances, r \in RequestNames : StopReplying(c, r)
    \/ \E c \in Instances, r \in RequestNames, p \in FramePayloads : Request(c, r, p)

\* The event operations on one channel and one event name, with handlers that call
\* the channel during a trigger.
NextDispatch ==
    \/ BusChannel("n1")
    \/ \E c \in Instances, h \in DispatchHandlers : OnWithin(c, "e1", h, MaxDispatchSubs)
    \/ \E i \in 1..Len(subs) : Unsubscribe(i)
    \/ \E c \in Instances, p \in FramePayloads : TriggerDispatch(c, "e1", p)

Next == NextEvents \/ NextRequests \/ NextChain \/ NextDispatch

Spec == Init /\ [][Next]_vars
SpecEvents == Init /\ [][NextEvents]_vars
SpecRequests == Init /\ [][NextRequests]_vars
SpecChain == Init /\ [][NextRequests \/ NextChain]_vars
SpecFrame == Init /\ [][NextFrame]_vars
SpecNames == Init /\ [][NextNames]_vars
SpecDispatch == Init /\ [][NextDispatch]_vars

\* ------------------------------------------------------------- properties

Range(f) == {f[i] : i \in DOMAIN f}

\* The subscriptions of event e on instance c whose unsubscribe function was never
\* invoked, in subscription order.
Live(c, e) == SelectSeq(subs, LAMBDA s : s.ch = c /\ s.ev = e /\ ~s.called)

\* list without its k-th element (k = 0: list itself).
Without(list, k) == SubSeq(list, 1, k - 1) \o SubSeq(list, k + 1, Len(list))

\* C1: channel(n) returns one and the same instance on every call, for the lifetime
\* of the bus, and two different names never get the same instance.
C1_ChannelIdentity ==
    /\ \A n \in ChannelNames : Cardinality(returned[n]) <= 1
    /\ \A n1, n2 \in ChannelNames : n1 # n2 => returned[n1] \cap returned[n2] = {}

\* A repeated channel(n) call has returned the existing instance, and both names
\* have been looked up.
C1_Witness ==
    /\ last.op = "channel"
    /\ last.out.value = <<"Channel", "existing">>
    /\ \A n \in ChannelNames : returned[n] # {}

\* C2: trigger(e, p) invokes the handler of every subscription made by on(e, .)
\* whose unsubscribe function was not invoked, once each, in subscription order,
\* each with p (the handlers being ones that return).
C2_TriggerInvokesAllSubscribed ==
    last.op = "trigger" =>
        LET live == Live(last.ch, last.name)
        IN  (\A i \in DOMAIN live : live[i].h # "hThrow") =>
                last.calls = [i \in DOMAIN live |-> <<live[i].h, last.payload>>]

\* C3: after reply(r, h), with no later reply or stopReplying on r, request(r, p)
\* invokes h exactly once with p and returns h(p).
C3_RequestReturnsReply ==
    (last.op = "request" /\ replies[last.ch][last.name].h # NoHandler) =>
        LET h == replies[last.ch][last.name].h
        IN  /\ last.calls = << <<h, last.payload>> >>
            /\ last.out = Returns(<<h, last.payload>>)

\* A request on a replied name returned, on an instance that has handlers under both
\* request names.
C3_Witness ==
    /\ last.op = "request"
    /\ last.out.kind = "return"
    /\ Len(last.calls) = 1
    /\ \A r \in RequestNames : replies[last.ch][r].h # NoHandler

\* C4: request(r, p) on a name with no handler registered by reply invokes no
\* handler and throws the error whose message starts with "WreckedRadio:" and
\* names r.
C4_UnhandledRequestThrows ==
    (last.op = "request" /\ replies[last.ch][last.name].h = NoHandler) =>
        /\ last.calls = <<>>
        /\ last.out = Unhandled(last.name)

\* C5: invoking the unsubscribe function of on(e, h) removes the entry of h from
\* the handlers of e, if there is one, and nothing else: every other handler of e
\* stays, in its order, and a handler subscribed once is gone.
C5_UnsubscribeRemovesOnlyItsHandler ==
    [][last'.op = "unsubscribe" =>
        LET s == subs[last'.ret]
            old == heap[s.ch].events.val[s.ev]
            new == heap'[s.ch].events.val[s.ev]
        IN  \E k \in 0..Len(old) :
                /\ new = Without(old, k)
                /\ IF k = 0 THEN s.h \notin Range(old) ELSE old[k] = s.h]_vars

\* C6: invoking an unsubscribe function that was invoked before changes the
\* handlers of no event.
C6_SecondUnsubscribeIsNoOp ==
    [][(last'.op = "unsubscribe" /\ subs[last'.ret].called) => heap' = heap]_vars

\* C7: a request name has no handler or exactly one, the one of the latest reply:
\* a request never invokes a handler that a later reply replaced.
C7_LastReplyWins ==
    /\ \A c \in Instances, r \in RequestNames :
        IF replies[c][r].h = NoHandler
        THEN r \notin heap[c].requests.keys
        ELSE r \in heap[c].requests.keys /\ heap[c].requests.val[r] = replies[c][r].h
    /\ last.op = "request" =>
        /\ Len(last.calls) <= 1
        /\ \A i \in DOMAIN last.calls : last.calls[i][1] = replies[last.ch][last.name].h

\* A request was answered by the handler of a second reply, which replaced a
\* different handler.
C7_Witness ==
    /\ last.op = "request"
    /\ Len(last.calls) = 1
    /\ replies[last.ch][last.name].prev \notin {NoHandler, replies[last.ch][last.name].h}

\* C8: stopReplying(r) does not throw, leaves the handlers of the other request
\* names as they were, changes nothing when r had no handler, and afterwards
\* request(r, p) throws the unhandled-request error.
C8_StopReplyingRemovesOnlyR ==
    [][last'.op = "stopReplying" =>
        LET c == last'.ch
            r == last'.name
        IN  /\ last'.out.kind = "return"
            /\ \A r2 \in RequestNames \ {r} :
                /\ (r2 \in heap'[c].requests.keys) = (r2 \in heap[c].requests.keys)
                /\ heap'[c].requests.val[r2] = heap[c].requests.val[r2]
            /\ \A c2 \in Instances \ {c} : heap'[c2] = heap[c2]
            /\ replies[c][r].h = NoHandler => heap' = heap
            /\ \A p \in Payloads :
                RequestResult(heap'[c], r, p) = [calls |-> <<>>, out |-> Unhandled(r)]]_vars

\* C9: trigger(e, p) on an event name without subscribers does not throw, invokes
\* no handler and leaves the registries as they were.
C9_TriggerWithoutSubscribers ==
    [][(last'.op = "trigger" /\ heap[last'.ch].events.val[last'.name] = <<>>) =>
        /\ last'.out = Returns(Undefined)
        /\ last'.calls = <<>>
        /\ heap' = heap]_vars

\* C10: trigger(e1, p) invokes only handlers that have a subscription to e1 on that
\* channel whose unsubscribe function was not invoked; a handler subscribed only
\* to another event name is not invoked.
C10_NoBroadcast ==
    last.op = "trigger" =>
        \A i \in DOMAIN last.calls :
            /\ last.calls[i][1] \in {s.h : s \in Range(Live(last.ch, last.name))}
            /\ last.calls[i][2] = last.payload

\* trigger(e1, p) invoked a handler while another handler, not subscribed to e1,
\* is subscribed to another event name of the same channel.
C10_Witness ==
    /\ last.op = "trigger"
    /\ last.calls # <<>>
    /\ \E e2 \in EventNames \ {last.name} :
        \E s \in Range(Live(last.ch, e2)) :
            /\ s.h \in Range(heap[last.ch].events.val[e2])
            /\ s.h \notin Range(heap[last.ch].events.val[last.name])

Entry(obj, n) == <<n \in obj.keys, obj.val[n]>>

\* C12: a new channel starts with empty registries and its creation leaves the
\* existing channels as they were; an operation on one channel changes no registry
\* of another channel and invokes only handlers registered on its own channel.
C12_ChannelsIndependent ==
    [][/\ last'.op = "channel" =>
            /\ SubSeq(heap', 1, Len(heap)) = heap
            /\ \A c \in (Len(heap) + 1)..Len(heap') :
                /\ heap'[c].events.keys = {}
                /\ heap'[c].requests.keys = {}
                /\ \A e \in EventNames : heap'[c].events.val[e] = <<>>
       /\ last'.op \in {"on", "unsubscribe", "trigger", "reply", "stopReplying", "request"} =>
            /\ Len(heap') = Len(heap)
            /\ \A c2 \in Instances \ {last'.ch} : heap'[c2] = heap[c2]
            /\ \A i \in DOMAIN last'.calls :
                last'.calls[i][1] \in
                    Range(heap[last'.ch].events.val[last'.name])
                        \cup {heap[last'.ch].requests.val[last'.name]}]_vars

\* A trigger invoked handlers of an event name under which another channel holds
\* other handlers.
C12_Witness ==
    /\ last.op = "trigger"
    /\ last.calls # <<>>
    /\ \E c2 \in Instances \ {last.ch} :
        /\ heap[c2].events.val[last.name] # <<>>
        /\ heap[c2].events.val[last.name] # heap[last.ch].events.val[last.name]

\* C13: reply and stopReplying return the channel they were called on, whether or
\* not the name had a handler, so a chained call is the same call made on that
\* channel.
C13_ChainingReturnsThis ==
    [][/\ last'.op \in ChainOps => (last'.ret = last'.ch /\ last'.out.kind = "return")
       /\ \A r \in RequestNames :
            /\ ChainStopReplying(r) => StopReplying(last.ch, r)
            /\ \A h \in RequestHandlers : ChainReply(r, h) => Reply(last.ch, r, h)]_vars

\* After ch.reply(r1, ..).reply(r2, ..).stopReplying(r1): the last call returned ch,
\* r1 has no handler and r2 has one.
C13_Witness ==
    /\ last.op = "stopReplying"
    /\ last.ret = last.ch
    /\ last.name \notin heap[last.ch].requests.keys
    /\ \E r \in RequestNames \ {last.name} : r \in heap[last.ch].requests.keys

\* C17: on(e, .) and the unsubscribe functions it returns change only the handlers
\* of e; reply(r, .) and stopReplying(r) change only the entry of r in requests;
\* trigger and request change nothing.  A name used as event name and as request
\* name has two separate entries.
C17_OnlyNamedEntryChanges ==
    [][LET c == last'.ch
           n == last'.name
       IN  /\ last'.op \in {"on", "unsubscribe"} =>
                /\ heap'[c].requests = heap[c].requests
                /\ \A e \in EventNames \ {n} :
                    Entry(heap'[c].events, e) = Entry(heap[c].events, e)
           /\ last'.op \in {"reply", "stopReplying"} =>
                /\ heap'[c].events = heap[c].events
                /\ \A r \in RequestNames \ {n} :
                    Entry(heap'[c].requests, r) = Entry(heap[c].requests, r)
           /\ last'.op \in {"trigger", "request"} => heap' = heap]_vars

\* stopReplying(n) ran on a channel that holds event handlers under the same name n,
\* which are still there.
C17_Witness ==
    /\ last.op = "stopReplying"
    /\ last.name \in EventNames
    /\ heap[last.ch].events.val[last.name] # <<>>

\* The number of entries of handler h in an array of handlers.
Count(list, h) == Cardinality({i \in DOMAIN list : list[i] = h})

\* The number of invocations of handler h in a call.
Invocations(calls, h) == Cardinality({i \in DOMAIN calls : calls[i][1] = h})

\* C14: when a handler unsubscribes itself during trigger(e, p), and no handler
\* throws, every other handler subscribed to e when the trigger started is still
\* invoked in that call, once for each of its subscriptions.
C14_TriggerRunsToCompletion ==
    [][last'.op = "trigger" =>
        LET list == heap[last'.ch].events.val[last'.name]
        IN  "hThrow" \notin Range(list) =>
                \A h \in Range(list) \ {"hOff"} :
                    Invocations(last'.calls, h) = Count(list, h)]_vars

\* C15: the unsubscribe function of an on(e, h) call, invoked for the first time
\* while the handlers of e are those of the subscriptions not yet unsubscribed, in
\* subscription order, removes the entry of its own subscription, so the handlers of
\* e are again those of the remaining subscriptions in subscription order.
C15_UnsubscribeRemovesOwnEntry ==
    [][(last'.op = "unsubscribe" /\ ~subs[last'.ret].called) =>
        LET s == subs[last'.ret]
            before == Live(s.ch, s.ev)
            after == SelectSeq(subs', LAMBDA t : t.ch = s.ch /\ t.ev = s.ev /\ ~t.called)
        IN  heap[s.ch].events.val[s.ev] = [i \in DOMAIN before |-> before[i].h] =>
                heap'[s.ch].events.val[s.ev] = [i \in DOMAIN after |-> after[i].h]]_vars

\* C16: a handler hNew subscribed to e from inside a handler while trigger(e, p) is
\* dispatching is not invoked by that trigger, which makes at most as many
\* invocations as e had handlers when it started; hNew is placed after the handlers
\* subscribed before it, where later triggers find it.
C16_SubscribedDuringDispatch ==
    [][last'.op = "trigger" =>
        LET list == heap[last'.ch].events.val[last'.name]
            new == heap'[last'.ch].events.val[last'.name]
            added == Invocations(last'.calls, "hOn")
        IN  /\ Invocations(last'.calls, "hNew") <= Count(list, "hNew")
            /\ Len(last'.calls) <= Len(list)
            /\ added <= Len(new)
            /\ \A i \in (Len(new) - added + 1)..Len(new) : new[i] = "hNew"]_vars

====
